---- MODULE Spec2Model ----
(***************************************************************************)
(* CloudVault: the hierarchical real-time synchronisation subsystem.       *)
(*                                                                         *)
(* The model holds the two remote stores (the Firestore collections        *)
(* 'files' and 'notes', and the Storage bucket), and, for every open       *)
(* session (one browser tab running FileProvider and NotesProvider), the   *)
(* React state of the two providers, their live subscriptions and the      *)
(* asynchronous operations in flight.                                      *)
(*                                                                         *)
(* Granularity: one action is one handler run to its next await.  A state  *)
(* update together with the effect it triggers (cleanup of the previous    *)
(* effect, then the new effect body) is one action: React runs both in the *)
(* same commit.  A snapshot callback is delivered with the result set the  *)
(* store holds at the moment of delivery; a push that has not arrived yet  *)
(* is a delivery that has not happened yet.                                *)
(***************************************************************************)
EXTENDS Integers, Sequences, FiniteSets, TLC

\* ------------------------------------------------------------------ bounds

\* the open sessions (browser tabs); the one the synchronisation
\* specification follows
Sessions == {"s1", "s2"}
SyncSessions == {"s1"}
Users == {"u1", "u2"}
\* file.name of an uploaded File; the name typed for a new folder
Names == {"a", "b"}
FolderNames == {"Projects"}
\* the name typed for a new document; the content typed in the editor
DocumentNames == {"a"}
Contents == {"c1"}
\* the title typed for a new note; the title typed in the editor of a note
NewTitles == {"t0"}
EditTitles == {"t1"}
\* the address typed in the share dialog
Emails == {"x@y", "z@y"}
\* the text typed for a new checklist item (trimmed, not empty)
Drafts == {"d1", "d2"}
ItemTexts == {"milk"}
\* file.type of an uploaded File, as <<type, subtype>> of "type/subtype"
MimeTypes == {<<"image", "png">>, <<"text", "plain">>}

\* Spec: document ids of the Record Store; every specification: the last
\* clock value
MaxDocs == 2
MaxTime == 2
\* SpecBlob: uploadFile and deleteFile calls in all and in flight at once;
\* document ids
MaxBlobCalls == 2
MaxBlobTasks == 1
MaxBlobDocs == 1
\* SpecCollide: the same
MaxCollideCalls == 3
MaxCollideTasks == 2
MaxCollideDocs == 2
\* SpecDelete: uploadFile and deleteFile calls in all and in flight at once;
\* document ids
MaxDeleteCalls == 3
MaxDeleteTasks == 1
MaxDeleteDocs == 1
\* SpecLive: document ids; uploadFile calls in all and in flight at once
MaxLiveDocs == 2
MaxLiveCalls == 1
MaxLiveTasks == 1
\* SpecAutosave: document ids
MaxSaveDocs == 1

MaxTreeDocs == 2
MaxTreeCalls == 2
MaxTreeTasks == 1

MaxBrowseDocs == 2
MaxBrowseCalls == 2
MaxBrowseTasks == 1
\* SpecChecklist: document ids; checklist item ids
MaxListDocs == 1
MaxItems == 2
\* SpecNotes: document ids
MaxNoteDocs == 2
\* SpecEdit: document ids; deleteFile calls in all and in flight at once
MaxEditDocs == 1
MaxEditCalls == 1
MaxEditTasks == 1

\* the wait of the debounced save (1000 ms), in steps of the clock
DebounceWait == 1

\* null, for currentUser
None == "none"
\* null, for currentFolder and parentId (document ids are 1, 2, ...)
NoId == 0
\* the sentinel id 'root' of the first breadcrumb
RootSentinel == -1
\* undefined, for url
NoUrl == [base |-> <<>>, object |-> <<>>]
\* undefined / the empty string, for a storage path
NoPath == <<>>

\* ------------------------------------------------------------ pure helpers

\* file.type.startsWith('image/') ? 'image' : startsWith('video/') ? 'video' : 'document'
FileTypeOf(mime) ==
  IF mime[1] = "image" THEN "image"
  ELSE IF mime[1] = "video" THEN "video"
  ELSE "document"

\* `users/${currentUser.uid}/${Date.now()}_${file.name}`, as its segments
StoragePath(uid, ts, name) == <<"users", uid, <<ts, name>>>>

\* getDownloadURL: https://firebasestorage.googleapis.com/v0/b/[bucket]/o/[encoded path]
\* The URL's pathname as its '/'-separated parts; the object path is one
\* part, its own '/' being percent-encoded.
DownloadURL(path) == [base |-> <<"v0", "b", "bucket", "o">>, object |-> path]

\* urlObj.pathname.split('/o/')[1], decoded: what follows the first "/o/",
\* undefined when the pathname holds none
PathOfUrl(url) ==
  IF \E i \in 1..Len(url.base) : url.base[i] = "o" THEN url.object ELSE NoPath

\* orderBy('type'), orderBy('name'): the order of the strings
TypeOrd(t) == CASE t = "document" -> 1 [] t = "folder" -> 2 [] t = "image" -> 3 [] t = "video" -> 4
NameOrd(n) == CASE n = "Projects" -> 1 [] n = "a" -> 2 [] n = "b" -> 3

\* the store's order of the files query: type, then name, then document id
FileBefore(x, y) ==
  \/ TypeOrd(x.type) < TypeOrd(y.type)
  \/ /\ x.type = y.type
     /\ \/ NameOrd(x.name) < NameOrd(y.name)
        \/ x.name = y.name /\ x.id < y.id

\* mutant: a comparator that subtracts the timestamps the other way round
NoteBeforeOldestFirst(x, y) ==
  \/ x.isPinned /\ ~y.isPinned
  \/ /\ x.isPinned = y.isPinned
     /\ \/ x.updatedAt < y.updatedAt
        \/ x.updatedAt = y.updatedAt /\ x.id < y.id

\* the comparator of notesData.sort: pinned first, then most recent update;
\* ties keep the snapshot's order (document id)
NoteBefore(x, y) ==
  \/ x.isPinned /\ ~y.isPinned
  \/ /\ x.isPinned = y.isPinned
     /\ \/ x.updatedAt > y.updatedAt
        \/ x.updatedAt = y.updatedAt /\ x.id < y.id

RECURSIVE SortFiles(_)
SortFiles(S) ==
  IF S = {} THEN <<>>
  ELSE LET m == CHOOSE x \in S : \A y \in S \ {x} : FileBefore(x, y)
       IN <<m>> \o SortFiles(S \ {m})

RECURSIVE SortNotes(_)
SortNotes(S) ==
  IF S = {} THEN <<>>
  ELSE LET m == CHOOSE x \in S : \A y \in S \ {x} : NoteBefore(x, y)
       IN <<m>> \o SortNotes(S \ {m})

Range(q) == {q[i] : i \in 1..Len(q)}

\* files.find(f => f.id === id): the index of the first match, 0 when
\* there is none (find returns undefined)
Find(q, id) ==
  LET at == {i \in 1..Len(q) : q[i].id = id}
  IN IF at = {} THEN 0 ELSE CHOOSE i \in at : \A j \in at : i <= j

\* ------------------------------------------------------------------- state

VARIABLES
  docs,          \* Record Store, collection 'files': a set of records
  nextId,        \* the next document id the Record Store assigns (addDoc)
  blobs,         \* Blob Store: the set of object paths that hold a blob
  noteDocs,      \* Record Store, collection 'notes'
  now,           \* Date.now() / Timestamp.now()
  currentUser,   \* [session -> uid or None]          AuthProvider
  currentFolder, \* [session -> folder id or None]    FileProvider
  files,         \* [session -> sequence of records]  FileProvider
  breadcrumbs,   \* [session -> sequence of {id, name}]
  notes,         \* [session -> sequence of records]  NotesProvider
  editor,        \* [session -> the DocumentEditor and the debounce timers it set]
  noteEditor,    \* [session -> the state of the NoteEditor of the Dashboard]
  selectedFile,  \* [session -> the file of FileBrowser's menu, or NoId]
  fileSubs,      \* [session -> set of active listeners of the files query]
  noteSubs,      \* [session -> set of active listeners of the notes query]
  tasks,         \* the uploadFile and deleteFile calls in flight, in call order
  nCalls,        \* the number of uploadFile and deleteFile calls so far
  last           \* history: the handler that ran last, with the settled
                 \* call when it settled one

vars == <<docs, nextId, blobs, noteDocs, now, currentUser, currentFolder, files,
          breadcrumbs, notes, editor, noteEditor, selectedFile, fileSubs, noteSubs,
          tasks, nCalls, last>>

stores == <<docs, nextId, blobs, noteDocs>>
local == <<currentUser, currentFolder, files, breadcrumbs, notes, editor, noteEditor,
           selectedFile, fileSubs, noteSubs>>

RootCrumb == [id |-> RootSentinel, name |-> "My Drive"]

\* no DocumentEditor mounted.  doc and content are the component's state;
\* lastContent and lastAt record its last handleContentChange; timers are the
\* pending invocations of the debounced functions the session has created
NoEditor == [doc |-> NoId, content |-> "", lastContent |-> "", lastAt |-> 0, timers |-> {}]

\* no NoteEditor mounted.  note is the id of the note being edited (NoId for a
\* new note), isPinned and checklistItems the component's state, nextItem the
\* next fresh item id (crypto.randomUUID())
NoNoteEditor ==
  [open |-> FALSE, note |-> NoId, isPinned |-> FALSE, checklistItems |-> <<>>,
   nextItem |-> 1]

Init ==
  /\ docs = {}
  /\ nextId = 1
  /\ blobs = {}
  /\ noteDocs = {}
  /\ now = 1
  /\ currentUser = [s \in Sessions |-> None]
  /\ currentFolder = [s \in Sessions |-> NoId]
  /\ files = [s \in Sessions |-> <<>>]
  /\ breadcrumbs = [s \in Sessions |-> <<RootCrumb>>]
  /\ notes = [s \in Sessions |-> <<>>]
  /\ editor = [s \in Sessions |-> NoEditor]
  /\ noteEditor = [s \in Sessions |-> NoNoteEditor]
  /\ selectedFile = [s \in Sessions |-> NoId]
  /\ fileSubs = [s \in Sessions |-> {}]
  /\ noteSubs = [s \in Sessions |-> {}]
  /\ tasks = <<>>
  /\ nCalls = 0
  /\ last = <<"init">>

\* ------------------------------------------------- the live queries (store)

\* where('userId', '==', uid), where('parentId', '==', folder || null)
FilesQuery(sub) == {d \in docs : d.userId = sub.userId /\ d.parentId = sub.parentId}

\* where('userId', '==', uid)
NotesQuery(sub) == {d \in noteDocs : d.userId = sub.userId}

\* ------------------------------------------------- the subscription effects

\* mutant: an effect that returns no cleanup
FilesCleanupMissing(subs) == subs

\* return () => unsubscribe(): the cleanup of the effect that ran before
FilesCleanup(subs) == {}
NotesCleanup(subs) == {}

\* the effect body of FileProvider for the new (user, folder)
\* The DocumentEditor is unmounted (navigate('/files'), or the redirect of
\* PrivateRoute).  Nothing cancels the debounced functions: their timers stay.
Unmount(e) ==
  [NoEditor EXCEPT !.timers = {[t EXCEPT !.current = FALSE, !.mounted = FALSE] : t \in e.timers}]

\* FileProvider renders again with the collection fs.  updateDocument and
\* getFileById are new functions, so a mounted DocumentEditor (a) makes a new
\* debounced function (useCallback(..., [updateDocument])), while the timer
\* of the one before stays, and (b) runs its effect again
\* ([fileId, getFileById, navigate]): the document is read from fs and the
\* content reset to it, or the editor navigates away when it is not there.
Rerender(e, fs) ==
  IF e.doc = NoId THEN e
  ELSE LET f == Find(fs, e.doc)
       IN IF f # 0 /\ fs[f].type = "document"
          THEN [e EXCEPT !.content = fs[f].content,
                         !.timers = {[t EXCEPT !.current = FALSE] : t \in @}]
          ELSE Unmount(e)

FilesSubscribe(subs, user, folder) ==
  IF user = None THEN subs ELSE subs \cup {[userId |-> user, parentId |-> folder]}

NotesSubscribe(subs, user) ==
  IF user = None THEN subs ELSE subs \cup {[userId |-> user]}

\* mutant: an effect that fills the collection itself when it subscribes
FilesEffectPreload(s, user, folder) ==
  /\ fileSubs' = [fileSubs EXCEPT ![s] = FilesSubscribe(FilesCleanup(@), user, folder)]
  /\ files' = [files EXCEPT ![s] =
                 IF user = None THEN <<>>
                 ELSE SortFiles(FilesQuery([userId |-> user, parentId |-> folder]))]

\* useEffect(..., [currentUser, currentFolder]): cleanup, then the body
FilesEffect(s, user, folder) ==
  /\ fileSubs' = [fileSubs EXCEPT ![s] = FilesSubscribe(FilesCleanup(@), user, folder)]
  /\ files' = IF user = None THEN [files EXCEPT ![s] = <<>>] ELSE files

NotesEffect(s, user) ==
  /\ noteSubs' = [noteSubs EXCEPT ![s] = NotesSubscribe(NotesCleanup(@), user)]
  /\ notes' = IF user = None THEN [notes EXCEPT ![s] = <<>>] ELSE notes

\* mutant: a callback that drops the snapshot
ApplyFilesSnapshotKeep(old, snapshot) == old

\* mutant: the snapshot merged into the collection held before
ApplyFilesSnapshotMerge(old, snapshot) == SortFiles(Range(old) \cup snapshot)

\* setFiles(filesData): the snapshot's documents, in the snapshot's order
ApplyFilesSnapshot(old, snapshot) == SortFiles(snapshot)

\* setNotes(notesData.sort(...))
ApplyNotesSnapshot(old, snapshot) == SortNotes(snapshot)

\* onSnapshot callback of FileProvider, for one active listener
OnFilesSnapshot(s) ==
  /\ \E sub \in fileSubs[s] :
       files' = [files EXCEPT ![s] = ApplyFilesSnapshot(@, FilesQuery(sub))]
  /\ editor' = [editor EXCEPT ![s] = Rerender(@, files'[s])]
  /\ last' = <<"filesPush", s>>
  /\ UNCHANGED <<stores, now, currentUser, currentFolder, breadcrumbs, notes, noteEditor,
                 selectedFile,
                 fileSubs, noteSubs, tasks, nCalls>>

\* onSnapshot callback of NotesProvider
OnNotesSnapshot(s) ==
  /\ \E sub \in noteSubs[s] :
       notes' = [notes EXCEPT ![s] = ApplyNotesSnapshot(@, NotesQuery(sub))]
  /\ last' = <<"notesPush", s>>
  /\ UNCHANGED <<stores, now, currentUser, currentFolder, breadcrumbs, files, editor,
                 noteEditor, selectedFile,
                 fileSubs, noteSubs, tasks, nCalls>>

\* The live query of FileProvider terminates abnormally (permission revoked,
\* for example).  onSnapshot is called with a next callback only: the listener
\* ends, no code of the provider runs and its state stays as it is.
OnFilesSnapshotError(s) ==
  /\ \E sub \in fileSubs[s] : fileSubs' = [fileSubs EXCEPT ![s] = @ \ {sub}]
  /\ last' = <<"filesLost", s>>
  /\ UNCHANGED <<stores, now, currentUser, currentFolder, files, breadcrumbs, notes,
                 editor, noteEditor, selectedFile, noteSubs, tasks, nCalls>>

\* the same for the live query of NotesProvider
OnNotesSnapshotError(s) ==
  /\ \E sub \in noteSubs[s] : noteSubs' = [noteSubs EXCEPT ![s] = @ \ {sub}]
  /\ last' = <<"notesLost", s>>
  /\ UNCHANGED <<stores, now, currentUser, currentFolder, files, breadcrumbs, notes,
                 editor, noteEditor, selectedFile, fileSubs, tasks, nCalls>>

\* onAuthStateChanged callback: setCurrentUser(user); both providers' effects
\* depend on currentUser and run again.  Without a user PrivateRoute replaces
\* the routed component by a redirect.
AuthStateChanged(s, u) ==
  /\ u # currentUser[s]
  /\ currentUser' = [currentUser EXCEPT ![s] = u]
  /\ FilesEffect(s, u, currentFolder[s])
  /\ NotesEffect(s, u)
  /\ editor' = [editor EXCEPT ![s] = IF u = None THEN Unmount(@) ELSE Rerender(@, files'[s])]
  /\ noteEditor' = IF u = None THEN [noteEditor EXCEPT ![s] = NoNoteEditor] ELSE noteEditor
  /\ selectedFile' = IF u = None THEN [selectedFile EXCEPT ![s] = NoId] ELSE selectedFile
  /\ last' = <<"other">>
  /\ UNCHANGED <<stores, now, currentFolder, breadcrumbs, tasks, nCalls>>

\* ----------------------------------------------------------- navigation

\* mutant: a trail that grows by the folder entered
NewBreadcrumbsAppend(s, folderId) ==
  IF folderId = NoId THEN <<RootCrumb>>
  ELSE LET f == Find(files[s], folderId)
       IN IF f = 0 THEN breadcrumbs[s]
          ELSE breadcrumbs[s] \o <<[id |-> files[s][f].id, name |-> files[s][f].name]>>

\* mutant: a navigation to the root that leaves the trail as it is
NewBreadcrumbsNoReset(s, folderId) ==
  LET f == Find(files[s], folderId)
  IN IF folderId = NoId \/ f = 0 THEN breadcrumbs[s]
     ELSE <<RootCrumb, [id |-> files[s][f].id, name |-> files[s][f].name]>>

\* mutant: a trail whose parent entry is looked up in the Record Store
NewBreadcrumbsFromStore(s, folderId) ==
  IF folderId = NoId THEN <<RootCrumb>>
  ELSE LET f == Find(files[s], folderId)
       IN IF f = 0 THEN breadcrumbs[s]
          ELSE LET folder == files[s][f]
                   ps == {d \in docs : d.id = folder.parentId}
               IN (IF ps # {}
                   THEN LET d == CHOOSE d \in ps : TRUE
                        IN <<RootCrumb, [id |-> d.id, name |-> d.name]>>
                   ELSE <<RootCrumb>>)
                  \o <<[id |-> folder.id, name |-> folder.name]>>

\* the breadcrumb trail navigateToFolder sets (unchanged when the folder is
\* not in the loaded collection)
NewBreadcrumbs(s, folderId) ==
  IF folderId = NoId THEN <<RootCrumb>>
  ELSE LET f == Find(files[s], folderId)
       IN IF f = 0 THEN breadcrumbs[s]
          ELSE LET folder == files[s][f]
                   p == IF folder.parentId # NoId THEN Find(files[s], folder.parentId) ELSE 0
               IN (IF p # 0
                   THEN <<RootCrumb, [id |-> files[s][p].id, name |-> files[s][p].name]>>
                   ELSE <<RootCrumb>>)
                  \o <<[id |-> folder.id, name |-> folder.name]>>

\* the state navigateToFolder leaves in the provider and below it:
\* setCurrentFolder, setBreadcrumbs, and the effect of the next render
navigateState(s, folderId) ==
  /\ currentFolder' = [currentFolder EXCEPT ![s] = folderId]
  /\ breadcrumbs' = [breadcrumbs EXCEPT ![s] = NewBreadcrumbs(s, folderId)]
  /\ IF folderId # currentFolder[s]
     THEN FilesEffect(s, currentUser[s], folderId)
     ELSE UNCHANGED <<fileSubs, files>>
  /\ editor' = [editor EXCEPT ![s] = Rerender(@, files'[s])]

navigateToFolder(s, folderId) ==
  /\ navigateState(s, folderId)
  /\ last' = <<"navigate", s, folderId>>
  /\ UNCHANGED <<stores, now, currentUser, notes, noteEditor, selectedFile, noteSubs, tasks, nCalls>>

\* FileBrowser.handleFileClick on a folder card
handleFileClick(s) ==
  \E i \in 1..Len(files[s]) :
    /\ files[s][i].type = "folder"
    /\ navigateToFolder(s, files[s][i].id)

\* FileBrowser.handleBreadcrumbClick
handleBreadcrumbClick(s) ==
  \E i \in 1..Len(breadcrumbs[s]) :
    LET id == breadcrumbs[s][i].id
    IN navigateToFolder(s, IF id = RootSentinel THEN NoId ELSE id)

\* ------------------------------------------------------------------ clock

\* the clock of Date.now() and Timestamp.now() advances
Tick ==
  /\ now' = now + 1
  /\ last' = <<"other">>
  /\ UNCHANGED <<stores, local, tasks, nCalls>>

\* ------------------------------------------------ createFolder and addNote

\* createFolder(name): one addDoc, which succeeds or throws
createFolder(s, name, ok) ==
  /\ currentUser[s] # None
  /\ IF ok
     THEN /\ docs' = docs \cup {[id |-> nextId, name |-> name, type |-> "folder",
                                 url |-> NoUrl, content |-> "", updatedAt |-> now,
                                 userId |-> currentUser[s],
                                 parentId |-> currentFolder[s],
                                 isStarred |-> FALSE, isShared |-> FALSE,
                                 sharedWith |-> <<>>]}
          /\ nextId' = nextId + 1
     ELSE UNCHANGED <<docs, nextId>>
  /\ last' = <<"other">>
  /\ UNCHANGED <<blobs, noteDocs, now, local, tasks, nCalls>>

\* addNote(title, content): one addDoc.  Of the fields of a note the model
\* keeps title, isPinned, updatedAt and checklistItems; content, color and labels are passed
\* along in every call exactly as title is.
addNote(s, title, ok) ==
  /\ currentUser[s] # None
  /\ IF ok
     THEN /\ noteDocs' = noteDocs \cup {[id |-> nextId, title |-> title,
                                         userId |-> currentUser[s],
                                         isPinned |-> FALSE, updatedAt |-> now,
                                         checklistItems |-> <<>>]}
          /\ nextId' = nextId + 1
     ELSE UNCHANGED <<noteDocs, nextId>>
  /\ last' = <<"other">>
  /\ UNCHANGED <<docs, blobs, now, local, tasks, nCalls>>

\* deleteNote(id), called from the list and the editor on a loaded note:
\* deleteDoc on the note, whoever the current user is.
deleteNote(s, id, ok) ==
  /\ id \in {notes[s][i].id : i \in 1..Len(notes[s])}
  /\ noteDocs' = IF ok THEN {d \in noteDocs : d.id # id} ELSE noteDocs
  /\ last' = <<"other">>
  /\ UNCHANGED <<docs, nextId, blobs, now, local, tasks, nCalls>>

\* ------------------------------------------- the other write operations

\* History of a call of a write operation that is one store call at most:
\* the identity at the call, its target, whether the target was in the store,
\* the isStarred the store held for it, the store calls it issued, the fields
\* it passed to updateDoc, and how its promise settled.
OpDone(op, s, id, existed, issued, fields, outcome) ==
  last' = <<"op", [op |-> op, sess |-> s, user |-> currentUser[s], target |-> id,
                   existed |-> existed,
                   wasStarred |-> \E d \in docs : d.id = id /\ d.isStarred,
                   issued |-> issued, fields |-> fields, outcome |-> outcome]>>

InFiles(id) == \E d \in docs : d.id = id
InNotes(id) == \E d \in noteDocs : d.id = id

\* createDocument(name, content): the guard, then one addDoc
createDocument(s, name, content, ok) ==
  /\ IF currentUser[s] = None
     THEN /\ OpDone("createDocument", s, NoId, FALSE, 0, {}, "resolved")
          /\ UNCHANGED <<docs, nextId>>
     ELSE IF ok
     THEN /\ docs' = docs \cup {[id |-> nextId, name |-> name, type |-> "document",
                                 url |-> NoUrl, content |-> content, updatedAt |-> now,
                                 userId |-> currentUser[s],
                                 parentId |-> currentFolder[s],
                                 isStarred |-> FALSE, isShared |-> FALSE,
                                 sharedWith |-> <<>>]}
          /\ nextId' = nextId + 1
          /\ OpDone("createDocument", s, nextId, FALSE, 1, {}, "resolved")
     ELSE /\ OpDone("createDocument", s, NoId, FALSE, 1, {}, "rejected")
          /\ UNCHANGED <<docs, nextId>>
  /\ UNCHANGED <<blobs, noteDocs, now, local, tasks, nCalls>>

\* updateDocument(id, content): updateDoc with content and updatedAt, which
\* fails when the document is not there.  The document editor calls it from
\* a debounce timer, one second after the last keystroke, that nothing cancels:
\* the call runs whatever the identity and the loaded collection are by then.
updateDocument(s, id, content, ok) ==
  /\ id \in 1..(nextId - 1)
  /\ IF ok /\ InFiles(id)
     THEN /\ docs' = {IF d.id = id THEN [d EXCEPT !.content = content, !.updatedAt = now]
                      ELSE d : d \in docs}
          /\ OpDone("updateDocument", s, id, TRUE, 1, {"content", "updatedAt"}, "resolved")
     ELSE /\ OpDone("updateDocument", s, id, InFiles(id), 1, {"content", "updatedAt"},
                    "rejected")
          /\ UNCHANGED docs
  /\ UNCHANGED <<nextId, blobs, noteDocs, now, local, tasks, nCalls>>

\* history of a checklist operation of NotesProvider: the note and item it
\* was called with, whether the note and the item were in the Record Store,
\* and how the call settled
ItemDone(op, s, noteId, itemId, isCompleted, outcome) ==
  last' = <<"item", [op |-> op, sess |-> s, target |-> noteId, item |-> itemId,
                     isCompleted |-> isCompleted,
                     existed |-> InNotes(noteId),
                     present |-> \E n \in noteDocs :
                                   /\ n.id = noteId
                                   /\ \E k \in 1..Len(n.checklistItems) :
                                        n.checklistItems[k].id = itemId,
                     outcome |-> outcome]>>

\* updateChecklistItem(noteId, itemId, updates), called by
\* NoteView.handleToggleItem with { isCompleted: !item.isCompleted }: the body
\* is empty, the promise resolves
updateChecklistItem(s, noteId, itemId, isCompleted) ==
  /\ noteId \in 1..(nextId - 1)
  /\ ItemDone("updateChecklistItem", s, noteId, itemId, isCompleted, "resolved")
  /\ UNCHANGED <<stores, now, local, tasks, nCalls>>

\* deleteChecklistItem(noteId, itemId), called by NoteView.handleDeleteItem:
\* the body is empty, the promise resolves
deleteChecklistItem(s, noteId, itemId) ==
  /\ noteId \in 1..(nextId - 1)
  /\ ItemDone("deleteChecklistItem", s, noteId, itemId, FALSE, "resolved")
  /\ UNCHANGED <<stores, now, local, tasks, nCalls>>

\* ------------------------------------------------------ the document editor

\* The route /document/:fileId mounts DocumentEditor behind PrivateRoute; its
\* effect reads the document from the loaded collection, or navigates away.
openDocument(s, id) ==
  /\ currentUser[s] # None
  /\ editor[s].doc = NoId
  /\ id \in 1..(nextId - 1)
  /\ LET f == Find(files[s], id)
     IN editor' = IF f # 0 /\ files[s][f].type = "document"
                  THEN [editor EXCEPT ![s].doc = id, ![s].content = files[s][f].content]
                  ELSE editor
  /\ last' = <<"other">>
  /\ UNCHANGED <<stores, now, currentUser, currentFolder, files, breadcrumbs, notes,
                 noteEditor, selectedFile,
                 fileSubs, noteSubs, tasks, nCalls>>

\* handleContentChange: setContent(newContent); debouncedSave(document.id,
\* newContent).  The call replaces the pending timer of the current debounced
\* function, if there is one, by a timer that is due DebounceWait later.
handleContentChange(s, newContent) ==
  /\ editor[s].doc # NoId
  /\ editor' = [editor EXCEPT
       ![s].content = newContent,
       ![s].lastContent = newContent,
       ![s].lastAt = now,
       ![s].timers = {t \in @ : ~t.current} \cup
                     {[target |-> editor[s].doc, content |-> newContent,
                       due |-> now + DebounceWait, current |-> TRUE, mounted |-> TRUE]}]
  /\ last' = <<"other">>
  /\ UNCHANGED <<stores, now, currentUser, currentFolder, files, breadcrumbs, notes,
                 noteEditor, selectedFile,
                 fileSubs, noteSubs, tasks, nCalls>>

\* handleBack: navigate('/files')
handleBack(s) ==
  /\ editor[s].doc # NoId
  /\ editor' = [editor EXCEPT ![s] = Unmount(@)]
  /\ last' = <<"other">>
  /\ UNCHANGED <<stores, now, currentUser, currentFolder, files, breadcrumbs, notes,
                 noteEditor, selectedFile,
                 fileSubs, noteSubs, tasks, nCalls>>

\* no debounce timer is due
NoTimerDue == \A s \in Sessions : \A t \in editor[s].timers : t.due > now

\* A debounce timer fires: await updateDocument(docId, newContent), that is
\* the updateDoc of updateDocument.
debouncedSave(s, ok) ==
  \E t \in editor[s].timers :
    /\ t.due <= now
    /\ editor' = [editor EXCEPT ![s].timers = @ \ {t}]
    /\ IF ok /\ InFiles(t.target)
       THEN docs' = {IF d.id = t.target
                     THEN [d EXCEPT !.content = t.content, !.updatedAt = now]
                     ELSE d : d \in docs}
       ELSE UNCHANGED docs
    /\ last' = <<"saved", [sess |-> s, target |-> t.target, content |-> t.content,
                           due |-> t.due, current |-> t.current, mounted |-> t.mounted,
                           outcome |-> IF ok /\ InFiles(t.target) THEN "resolved"
                                       ELSE "rejected"]>>
    /\ UNCHANGED <<nextId, blobs, noteDocs, now, currentUser, currentFolder, files,
                   breadcrumbs, notes, noteEditor, selectedFile, fileSubs, noteSubs, tasks, nCalls>>

\* { isStarred: !file.isStarred }, file being the copy of the loaded collection
StarToWrite(s, id) == ~files[s][Find(files[s], id)].isStarred

\* toggleStar(id): const file = files.find(...); if (!file) return; updateDoc
toggleStar(s, id, ok) ==
  /\ id \in 1..(nextId - 1)
  /\ IF Find(files[s], id) = 0
     THEN /\ OpDone("toggleStar", s, id, InFiles(id), 0, {}, "resolved")
          /\ UNCHANGED docs
     ELSE IF ok /\ InFiles(id)
     THEN /\ docs' = {IF d.id = id THEN [d EXCEPT !.isStarred = StarToWrite(s, id)]
                      ELSE d : d \in docs}
          /\ OpDone("toggleStar", s, id, TRUE, 1, {"isStarred"}, "resolved")
     ELSE /\ OpDone("toggleStar", s, id, InFiles(id), 1, {"isStarred"}, "rejected")
          /\ UNCHANGED docs
  /\ UNCHANGED <<nextId, blobs, noteDocs, now, local, tasks, nCalls>>

\* shareFile(id, userEmail): updateDoc { isShared: true, sharedWith: [userEmail] }
shareFile(s, id, userEmail, ok) ==
  /\ id \in 1..(nextId - 1)
  /\ IF ok /\ InFiles(id)
     THEN /\ docs' = {IF d.id = id
                      THEN [d EXCEPT !.isShared = TRUE, !.sharedWith = <<userEmail>>]
                      ELSE d : d \in docs}
          /\ OpDone("shareFile", s, id, TRUE, 1, {"isShared", "sharedWith"}, "resolved")
     ELSE /\ OpDone("shareFile", s, id, InFiles(id), 1, {"isShared", "sharedWith"},
                    "rejected")
          /\ UNCHANGED docs
  /\ UNCHANGED <<nextId, blobs, noteDocs, now, local, tasks, nCalls>>

\* the body of updateNote: updateDoc with title, content, updatedAt and the
\* optional fields that are not undefined (isPinned is always passed here)
UpdateNoteDoc(op, s, id, title, isPinned, ok) ==
  IF ok /\ InNotes(id)
  THEN /\ noteDocs' = {IF d.id = id
                       THEN [d EXCEPT !.title = title, !.isPinned = isPinned,
                                      !.updatedAt = now]
                       ELSE d : d \in noteDocs}
       /\ OpDone(op, s, id, TRUE, 1, {"title", "isPinned", "updatedAt"}, "resolved")
  ELSE /\ OpDone(op, s, id, InNotes(id), 1, {"title", "isPinned", "updatedAt"}, "rejected")
       /\ UNCHANGED noteDocs

\* updateNote(id, title, content, color, labels, isPinned), as the note
\* editor calls it for the note it was opened on
updateNote(s, id, title, isPinned, ok) ==
  /\ id \in 1..(nextId - 1)
  /\ UpdateNoteDoc("updateNote", s, id, title, isPinned, ok)
  /\ UNCHANGED <<docs, nextId, blobs, now, local, tasks, nCalls>>

\* note.title of the copy of the loaded collection, which togglePin passes on
PinTitle(s, id) == notes[s][Find(notes[s], id)].title

\* togglePin(id): const note = notes.find(...); if (note) await updateNote(
\*   id, note.title, note.content, note.color, note.labels, !note.isPinned)
togglePin(s, id, ok) ==
  /\ id \in 1..(nextId - 1)
  /\ IF Find(notes[s], id) = 0
     THEN /\ OpDone("togglePin", s, id, InNotes(id), 0, {}, "resolved")
          /\ UNCHANGED noteDocs
     ELSE UpdateNoteDoc("togglePin", s, id, PinTitle(s, id),
                        ~notes[s][Find(notes[s], id)].isPinned, ok)
  /\ UNCHANGED <<docs, nextId, blobs, now, local, tasks, nCalls>>

\* addChecklistItem(noteId, text), called by NoteView.handleAddItem with the
\* trimmed text when it is not empty: the body is empty ("Implementation
\* needed"), the promise resolves
addChecklistItem(s, noteId, text) ==
  /\ noteId \in 1..(nextId - 1)
  /\ OpDone("addChecklistItem", s, noteId, InNotes(noteId), 0, {}, "resolved")
  /\ UNCHANGED <<stores, now, local, tasks, nCalls>>

\* ---------------------------------------------------------- the note editor

\* Dashboard.handleEditNote(note) from the list: NoteEditor mounts on that
\* copy of the note and its effect loads the component state from it
handleEditNote(s, i) ==
  /\ currentUser[s] # None
  /\ ~noteEditor[s].open
  /\ i \in 1..Len(notes[s])
  /\ noteEditor' = [noteEditor EXCEPT ![s] =
       [open |-> TRUE, note |-> notes[s][i].id, isPinned |-> notes[s][i].isPinned,
        checklistItems |-> notes[s][i].checklistItems,
        nextItem |-> 1 + Len(notes[s][i].checklistItems)]]
  /\ last' = <<"other">>
  /\ UNCHANGED <<stores, now, currentUser, currentFolder, files, breadcrumbs, notes,
                 editor, selectedFile, fileSubs, noteSubs, tasks, nCalls>>

\* the New Note button: setIsCreating(true), NoteEditor mounts without a note
handleNewNote(s) ==
  /\ currentUser[s] # None
  /\ ~noteEditor[s].open
  /\ noteEditor' = [noteEditor EXCEPT ![s] = [NoNoteEditor EXCEPT !.open = TRUE]]
  /\ last' = <<"other">>
  /\ UNCHANGED <<stores, now, currentUser, currentFolder, files, breadcrumbs, notes,
                 editor, selectedFile, fileSubs, noteSubs, tasks, nCalls>>

\* NoteEditor.handleAddChecklistItem, with a text that is not blank
handleAddChecklistItem(s, text) ==
  /\ noteEditor[s].open
  /\ noteEditor' = [noteEditor EXCEPT
       ![s].checklistItems = Append(@, [id |-> noteEditor[s].nextItem, text |-> text,
                                        isCompleted |-> FALSE]),
       ![s].nextItem = @ + 1]
  /\ last' = <<"other">>
  /\ UNCHANGED <<stores, now, currentUser, currentFolder, files, breadcrumbs, notes,
                 editor, selectedFile, fileSubs, noteSubs, tasks, nCalls>>

\* NoteEditor.handleToggleChecklistItem on a listed item
handleToggleChecklistItem(s, k) ==
  /\ noteEditor[s].open
  /\ k \in 1..Len(noteEditor[s].checklistItems)
  /\ noteEditor' = [noteEditor EXCEPT ![s].checklistItems[k].isCompleted = ~@]
  /\ last' = <<"other">>
  /\ UNCHANGED <<stores, now, currentUser, currentFolder, files, breadcrumbs, notes,
                 editor, selectedFile, fileSubs, noteSubs, tasks, nCalls>>

\* NoteEditor.handleDeleteChecklistItem on a listed item
handleDeleteChecklistItem(s, k) ==
  /\ noteEditor[s].open
  /\ k \in 1..Len(noteEditor[s].checklistItems)
  /\ noteEditor' = [noteEditor EXCEPT ![s].checklistItems =
       [j \in 1..(Len(@) - 1) |-> IF j < k THEN @[j] ELSE @[j + 1]]]
  /\ last' = <<"other">>
  /\ UNCHANGED <<stores, now, currentUser, currentFolder, files, breadcrumbs, notes,
                 editor, selectedFile, fileSubs, noteSubs, tasks, nCalls>>

\* Dashboard.handleCancel: the editor is closed
handleCancel(s) ==
  /\ noteEditor[s].open
  /\ noteEditor' = [noteEditor EXCEPT ![s] = NoNoteEditor]
  /\ last' = <<"other">>
  /\ UNCHANGED <<stores, now, currentUser, currentFolder, files, breadcrumbs, notes,
                 editor, selectedFile, fileSubs, noteSubs, tasks, nCalls>>

\* NoteEditor.handleSubmit with a title and a content that are not blank:
\* await updateNote(note.id, title, content, color, labels, isPinned) for a
\* note, await addNote(title, content, color, labels) without one, then
\* onCancel().  A rejected write leaves the editor open.
handleSubmit(s, title, ok) ==
  /\ noteEditor[s].open
  /\ IF noteEditor[s].note # NoId
     THEN /\ UpdateNoteDoc("handleSubmit", s, noteEditor[s].note, title,
                           noteEditor[s].isPinned, ok)
          /\ UNCHANGED nextId
     ELSE IF ok
     THEN /\ noteDocs' = noteDocs \cup {[id |-> nextId, title |-> title,
                                         userId |-> currentUser[s],
                                         isPinned |-> FALSE, updatedAt |-> now,
                                         checklistItems |-> <<>>]}
          /\ nextId' = nextId + 1
          /\ OpDone("handleSubmit", s, nextId, FALSE, 1, {}, "resolved")
     ELSE /\ OpDone("handleSubmit", s, NoId, FALSE, 1, {}, "rejected")
          /\ UNCHANGED <<noteDocs, nextId>>
  /\ noteEditor' = IF ok /\ (noteEditor[s].note = NoId \/ InNotes(noteEditor[s].note))
                   THEN [noteEditor EXCEPT ![s] = NoNoteEditor]
                   ELSE noteEditor
  /\ UNCHANGED <<docs, blobs, now, currentUser, currentFolder, files, breadcrumbs, notes,
                 editor, selectedFile, fileSubs, noteSubs, tasks, nCalls>>

\* -------------------------------------------------------------- uploadFile

\* A call of uploadFile or deleteFile.  pc is the await it is suspended at,
\* or "resolved" / "rejected" once its promise has settled.  user and parent
\* are the currentUser and currentFolder of the render whose closure an
\* uploadFile runs in (deleteFile reads neither).  failedAt, blobErr, existed,
\* docId, nPut and nInsert are history: where it failed, whether the target
\* was in the Record Store at the call, the id addDoc returned, and the puts
\* and inserts it issued.
NewTask(kind) ==
  [kind |-> kind, pc |-> "resolved", user |-> None, parent |-> NoId,
   name |-> "", type |-> "", path |-> NoPath, url |-> NoUrl, stamp |-> 0,
   target |-> NoId,
   found |-> FALSE, existed |-> FALSE, failedAt |-> "", blobErr |-> FALSE,
   docId |-> NoId, nPut |-> 0, nInsert |-> 0]

At(t, pc) == t \in 1..Len(tasks) /\ tasks[t].pc = pc

\* the promise of call t settles: it leaves the calls in flight
Settle(t, final) ==
  /\ tasks' = [i \in 1..(Len(tasks) - 1) |-> IF i < t THEN tasks[i] ELSE tasks[i + 1]]
  /\ last' = <<"settled", final>>

Continue(t, task) ==
  /\ tasks' = [tasks EXCEPT ![t] = task]
  /\ last' = <<"other">>

\* uploadFile(file): the guard, the classification and the storage reference
uploadFileCall(s, name, mime) ==
  /\ nCalls' = nCalls + 1
  /\ IF currentUser[s] = None
     THEN /\ last' = <<"settled", NewTask("upload")>>
          /\ UNCHANGED tasks
     ELSE /\ tasks' = Append(tasks, [NewTask("upload") EXCEPT
                 !.pc = "put", !.user = currentUser[s], !.parent = currentFolder[s],
                 !.name = name, !.type = FileTypeOf(mime),
                 !.path = StoragePath(currentUser[s], now, name)])
          /\ last' = <<"other">>
  /\ UNCHANGED <<stores, now, local>>

\* mutant: a catch block that logs the error and does not rethrow it
UploadCatchSwallow(task, at) == [task EXCEPT !.pc = "resolved", !.failedAt = at]

\* what the catch block of uploadFile does with an error: throw error
UploadCatch(task, at) == [task EXCEPT !.pc = "rejected", !.failedAt = at]

\* await uploadBytes(storageRef, file)
uploadBytes(t, ok) ==
  /\ At(t, "put")
  /\ IF ok
     THEN /\ blobs' = blobs \cup {tasks[t].path}
          /\ Continue(t, [tasks[t] EXCEPT !.pc = "url", !.nPut = @ + 1])
     ELSE /\ Settle(t, UploadCatch([tasks[t] EXCEPT !.nPut = @ + 1], "put"))
          /\ UNCHANGED blobs
  /\ UNCHANGED <<docs, nextId, noteDocs, now, local, nCalls>>

\* await getDownloadURL(storageRef): fails when the object is not there;
\* then const now = Timestamp.now() and the addDoc is issued
getDownloadURL(t, ok) ==
  /\ At(t, "url")
  /\ IF ok /\ tasks[t].path \in blobs
     THEN Continue(t, [tasks[t] EXCEPT !.pc = "insert", !.url = DownloadURL(tasks[t].path),
                                       !.stamp = now])
     ELSE Settle(t, UploadCatch(tasks[t], "url"))
  /\ UNCHANGED <<stores, now, local, nCalls>>

\* mutant: a record stamped with the identity and the folder the provider
\* has when the insert is issued
UploadRecordAtInsert(task, id) ==
  LET s == CHOOSE x \in SyncSessions : TRUE
  IN [id |-> id, name |-> task.name, type |-> task.type, url |-> task.url,
      content |-> "", updatedAt |-> task.stamp,
      userId |-> currentUser[s], parentId |-> currentFolder[s],
      isStarred |-> FALSE, isShared |-> FALSE, sharedWith |-> <<>>]

\* the record uploadFile inserts
UploadRecord(task, id) ==
  [id |-> id, name |-> task.name, type |-> task.type, url |-> task.url,
   content |-> "", updatedAt |-> task.stamp,
   userId |-> task.user, parentId |-> task.parent,
   isStarred |-> FALSE, isShared |-> FALSE, sharedWith |-> <<>>]

\* mutant: a failed insert that removes the blob it had uploaded
uploadAddDocRollback(t, ok) ==
  /\ At(t, "insert")
  /\ IF ok
     THEN /\ docs' = docs \cup {UploadRecord(tasks[t], nextId)}
          /\ nextId' = nextId + 1
          /\ blobs' = blobs
          /\ Settle(t, [tasks[t] EXCEPT !.pc = "resolved", !.docId = nextId,
                                        !.nInsert = @ + 1])
     ELSE /\ Settle(t, UploadCatch([tasks[t] EXCEPT !.nInsert = @ + 1], "insert"))
          /\ blobs' = blobs \ {tasks[t].path}
          /\ UNCHANGED <<docs, nextId>>
  /\ UNCHANGED <<noteDocs, now, local, nCalls>>

\* await addDoc(collection(db, 'files'), fileData)
uploadAddDoc(t, ok) ==
  /\ At(t, "insert")
  /\ IF ok
     THEN /\ docs' = docs \cup {UploadRecord(tasks[t], nextId)}
          /\ nextId' = nextId + 1
          /\ Settle(t, [tasks[t] EXCEPT !.pc = "resolved", !.docId = nextId,
                                        !.nInsert = @ + 1])
     ELSE /\ Settle(t, UploadCatch([tasks[t] EXCEPT !.nInsert = @ + 1], "insert"))
          /\ UNCHANGED <<docs, nextId>>
  /\ UNCHANGED <<blobs, noteDocs, now, local, nCalls>>

\* -------------------------------------------------------------- deleteFile

\* deleteFile(id): const file = files.find(f => f.id === id); if (!file) return
deleteFileCall(s, id) ==
  /\ id \in 1..(nextId - 1)
  /\ nCalls' = nCalls + 1
  /\ LET f == Find(files[s], id)
         base == [NewTask("delete") EXCEPT
                    !.target = id, !.existed = (\E d \in docs : d.id = id)]
     IN IF f = 0
        THEN /\ last' = <<"settled", base>>
             /\ UNCHANGED tasks
        ELSE /\ tasks' = Append(tasks, [base EXCEPT !.pc = "deleteDoc", !.found = TRUE,
                                                    !.url = files[s][f].url])
             /\ last' = <<"other">>
  /\ UNCHANGED <<stores, now, local>>

\* mutant: a deleteFile that stops after the record
AfterDeleteDocNoCleanup(task) == "resolved"

\* what follows the deleteDoc of deleteFile: if (file.url) { ... if (pathSegments) ... }
AfterDeleteDoc(task) ==
  IF task.url # NoUrl /\ PathOfUrl(task.url) # NoPath THEN "deleteBlob" ELSE "resolved"

\* mutant: a deleteDoc that fails, as updateDoc does, when the document is
\* not there
deleteDocNotFound(t, ok) ==
  /\ At(t, "deleteDoc")
  /\ IF ok /\ InFiles(tasks[t].target)
     THEN /\ docs' = {d \in docs : d.id # tasks[t].target}
          /\ IF AfterDeleteDoc(tasks[t]) = "resolved"
             THEN Settle(t, [tasks[t] EXCEPT !.pc = "resolved"])
             ELSE Continue(t, [tasks[t] EXCEPT !.pc = AfterDeleteDoc(tasks[t])])
     ELSE /\ Settle(t, [tasks[t] EXCEPT !.pc = "rejected",
                                        !.failedAt = IF ok THEN "notFound" ELSE "deleteDoc"])
          /\ UNCHANGED docs
  /\ UNCHANGED <<nextId, blobs, noteDocs, now, local, nCalls>>

\* await deleteDoc(fileRef): deleting a document that is not there succeeds
deleteDoc(t, ok) ==
  /\ At(t, "deleteDoc")
  /\ IF ok
     THEN /\ docs' = {d \in docs : d.id # tasks[t].target}
          /\ IF AfterDeleteDoc(tasks[t]) = "resolved"
             THEN Settle(t, [tasks[t] EXCEPT !.pc = "resolved"])
             ELSE Continue(t, [tasks[t] EXCEPT !.pc = AfterDeleteDoc(tasks[t])])
     ELSE /\ Settle(t, [tasks[t] EXCEPT !.pc = "rejected", !.failedAt = "deleteDoc"])
          /\ UNCHANGED docs
  /\ UNCHANGED <<nextId, blobs, noteDocs, now, local, nCalls>>

\* mutant: a catch block that rethrows
DeleteCatchRethrow(task) == [task EXCEPT !.pc = "rejected", !.failedAt = "deleteBlob", !.blobErr = TRUE]

\* what the catch block around deleteObject does with an error: console.error
DeleteCatch(task) == [task EXCEPT !.pc = "resolved", !.failedAt = "deleteBlob", !.blobErr = TRUE]

\* await deleteObject(storageRef): fails when the object is not there
deleteObject(t, ok) ==
  /\ At(t, "deleteBlob")
  /\ LET path == PathOfUrl(tasks[t].url)
     IN IF ok /\ path \in blobs
        THEN /\ blobs' = blobs \ {path}
             /\ Settle(t, [tasks[t] EXCEPT !.pc = "resolved"])
        ELSE /\ Settle(t, DeleteCatch(tasks[t]))
             /\ UNCHANGED blobs
  /\ UNCHANGED <<docs, nextId, noteDocs, now, local, nCalls>>

\* ------------------------------------------------- the file browser's cards

\* the FileBrowser is on screen (the document editor's route is not) and its
\* Menu is closed
BrowserIdle(s) == editor[s].doc = NoId /\ selectedFile[s] = NoId

\* handleMenuOpen(event, file): stopPropagation, setAnchorEl, setSelectedFile.
\* The Menu it opens is modal: until it closes no control of a card can be
\* clicked, so a card control is only ever clicked with selectedFile null.
handleMenuOpen(s, i) ==
  /\ currentUser[s] # None /\ editor[s].doc = NoId
  /\ selectedFile[s] = NoId
  /\ i \in 1..Len(files[s])
  /\ selectedFile' = [selectedFile EXCEPT ![s] = files[s][i].id]
  /\ last' = <<"other">>
  /\ UNCHANGED <<stores, now, currentUser, currentFolder, files, breadcrumbs, notes, editor,
                 noteEditor, fileSubs, noteSubs, tasks, nCalls>>

\* handleMenuClose, the onClose of the Menu
handleMenuClose(s) ==
  /\ selectedFile[s] # NoId
  /\ selectedFile' = [selectedFile EXCEPT ![s] = NoId]
  /\ last' = <<"other">>
  /\ UNCHANGED <<stores, now, currentUser, currentFolder, files, breadcrumbs, notes, editor,
                 noteEditor, fileSubs, noteSubs, tasks, nCalls>>

\* the ids handleDelete calls deleteFile for: that of selectedFile, if any
DeleteTargets(s) == IF selectedFile[s] = NoId THEN {} ELSE {selectedFile[s]}

\* handleDelete(): if (selectedFile) { deleteFile(selectedFile.id);
\* handleMenuClose(); }.  deleteFile returns at once when the file is not in
\* the loaded collection, and has its deleteDoc in flight when it is.
handleDelete(s) ==
  IF selectedFile[s] = NoId
  THEN UNCHANGED <<selectedFile, tasks, nCalls>>
  ELSE /\ selectedFile' = [selectedFile EXCEPT ![s] = NoId]
       /\ nCalls' = nCalls + 1
       /\ LET f == Find(files[s], selectedFile[s])
          IN tasks' = IF f = 0 THEN tasks
                      ELSE Append(tasks, [NewTask("delete") EXCEPT
                             !.pc = "deleteDoc", !.target = selectedFile[s],
                             !.existed = InFiles(selectedFile[s]),
                             !.found = TRUE, !.url = files[s][f].url])

\* the Delete item of the Menu: onClick={handleDelete}
menuDelete(s) ==
  /\ selectedFile[s] # NoId
  /\ handleDelete(s)
  /\ last' = <<"menuDelete", [sess |-> s, deleted |-> DeleteTargets(s)]>>
  /\ UNCHANGED <<stores, now, currentUser, currentFolder, files, breadcrumbs, notes, editor,
                 noteEditor, fileSubs, noteSubs>>

\* The Delete control of card i of the grid: onClick={() => handleDelete()},
\* and then, the event not being stopped, the onClick of the Card around it,
\* handleFileClick(file): navigateToFolder for a folder, the route of the
\* document editor for a document (which reads it from the loaded collection).
gridDelete(s, i) ==
  /\ currentUser[s] # None /\ editor[s].doc = NoId
  /\ selectedFile[s] = NoId
  /\ i \in 1..Len(files[s])
  /\ handleDelete(s)
  /\ LET file == files[s][i]
     IN /\ CASE file.type = "folder" -> navigateState(s, file.id)
              [] file.type = "document" ->
                   /\ editor' = [editor EXCEPT ![s].doc = file.id,
                                               ![s].content = file.content]
                   /\ UNCHANGED <<currentFolder, breadcrumbs, files, fileSubs>>
              [] OTHER -> UNCHANGED <<currentFolder, breadcrumbs, files, fileSubs, editor>>
        /\ last' = <<"gridDelete", [sess |-> s, target |-> file.id, type |-> file.type,
                                    deleted |-> DeleteTargets(s)]>>
  /\ UNCHANGED <<stores, now, currentUser, notes, noteEditor, noteSubs>>

\* ------------------------------------------------------------ specification

\* The bounds of a specification: at most maxCalls uploadFile and deleteFile
\* calls, maxTasks of them in flight at once; document ids up to maxDocs
\* (an insert beyond that fails).
CallAllowed(maxCalls, maxTasks) == nCalls < maxCalls /\ Len(tasks) < maxTasks
InsertAllowed(ok, maxDocs) == ok => nextId <= maxDocs

\* The synchronisation engines of one session: every identity change and
\* navigation, the creation of folders and notes, the deletion of notes, and
\* the pushes.
Next ==
  \/ \E s \in SyncSessions, u \in Users \cup {None} : AuthStateChanged(s, u)
  \/ \E s \in SyncSessions : OnFilesSnapshot(s)
  \/ \E s \in SyncSessions : OnNotesSnapshot(s)
  \/ \E s \in SyncSessions : handleFileClick(s)
  \/ \E s \in SyncSessions : handleBreadcrumbClick(s)
  \/ \E s \in SyncSessions, n \in FolderNames, ok \in BOOLEAN :
       InsertAllowed(ok, MaxDocs) /\ createFolder(s, n, ok)
  \/ \E s \in SyncSessions, title \in NewTitles, ok \in BOOLEAN :
       InsertAllowed(ok, MaxDocs) /\ addNote(s, title, ok)
  \/ \E s \in SyncSessions, id \in 1..MaxDocs, ok \in BOOLEAN : deleteNote(s, id, ok)
  \/ now < MaxTime /\ Tick

Spec == Init /\ [][Next]_vars

\* The blob coordinator: the sessions of one owner, u1, signing in and out in
\* the root folder, and the interleavings of uploadFile and deleteFile calls
\* with their store failures and the pushes.
BlobNext(mimes, maxCalls, maxTasks, maxDocs) ==
  \/ \E s \in Sessions, u \in {"u1", None} : AuthStateChanged(s, u)
  \/ \E s \in Sessions : OnFilesSnapshot(s)
  \/ \E s \in Sessions, n \in Names, m \in mimes :
       CallAllowed(maxCalls, maxTasks) /\ uploadFileCall(s, n, m)
  \/ \E s \in Sessions, id \in 1..maxDocs :
       CallAllowed(maxCalls, maxTasks) /\ deleteFileCall(s, id)
  \/ \E t \in 1..Len(tasks), ok \in BOOLEAN : uploadBytes(t, ok)
  \/ \E t \in 1..Len(tasks), ok \in BOOLEAN : getDownloadURL(t, ok)
  \/ \E t \in 1..Len(tasks), ok \in BOOLEAN :
       InsertAllowed(ok, maxDocs) /\ uploadAddDoc(t, ok)
  \/ \E t \in 1..Len(tasks), ok \in BOOLEAN : deleteDoc(t, ok)
  \/ \E t \in 1..Len(tasks), ok \in BOOLEAN : deleteObject(t, ok)
  \/ now < MaxTime /\ Tick

\* one upload and one deleteFile, or two of either; the files are images
NextBlob == BlobNext({<<"image", "png">>}, MaxBlobCalls, MaxBlobTasks, MaxBlobDocs)
SpecBlob == Init /\ [][NextBlob]_vars

\* The files engine of one session of the owner u1 with the three operations
\* that create a record.  The Record Store sends a snapshot to a listener for as long as
\* the listener is attached: a push that stays possible is delivered.
NextLive ==
  \/ \E s \in SyncSessions, u \in {"u1", None} : AuthStateChanged(s, u)
  \/ \E s \in SyncSessions : OnFilesSnapshot(s)
  \/ \E s \in SyncSessions : handleFileClick(s)
  \/ \E s \in SyncSessions : handleBreadcrumbClick(s)
  \/ \E s \in SyncSessions, n \in FolderNames, ok \in BOOLEAN :
       InsertAllowed(ok, MaxLiveDocs) /\ createFolder(s, n, ok)
  \/ \E s \in SyncSessions, n \in DocumentNames, ok \in BOOLEAN :
       InsertAllowed(ok, MaxLiveDocs) /\ createDocument(s, n, "", ok)
  \/ \E s \in SyncSessions, n \in DocumentNames :
       CallAllowed(MaxLiveCalls, MaxLiveTasks) /\ uploadFileCall(s, n, <<"image", "png">>)
  \/ \E t \in 1..Len(tasks), ok \in BOOLEAN : uploadBytes(t, ok)
  \/ \E t \in 1..Len(tasks), ok \in BOOLEAN : getDownloadURL(t, ok)
  \/ \E t \in 1..Len(tasks), ok \in BOOLEAN :
       InsertAllowed(ok, MaxLiveDocs) /\ uploadAddDoc(t, ok)

SpecLive ==
  Init /\ [][NextLive]_vars /\ \A s \in SyncSessions : WF_vars(OnFilesSnapshot(s))

\* The document editor of one session of the owner u1.  A timer that is due
\* fires before the clock advances.
NextAutosave ==
  \/ \E s \in SyncSessions, u \in {"u1", None} : AuthStateChanged(s, u)
  \/ \E s \in SyncSessions : OnFilesSnapshot(s)
  \/ \E s \in SyncSessions, n \in DocumentNames, ok \in BOOLEAN :
       InsertAllowed(ok, MaxSaveDocs) /\ createDocument(s, n, "", ok)
  \/ \E s \in SyncSessions, id \in 1..MaxSaveDocs : openDocument(s, id)
  \/ \E s \in SyncSessions, c \in Drafts : handleContentChange(s, c)
  \/ \E s \in SyncSessions : handleBack(s)
  \/ \E s \in SyncSessions, ok \in BOOLEAN : debouncedSave(s, ok)
  \/ now < MaxTime /\ NoTimerDue /\ Tick

SpecAutosave == Init /\ [][NextAutosave]_vars

\* The notes engine of one session of the owner u1 with the checklist
\* operations of NoteView and the note editor of the Dashboard
NextChecklist ==
  \/ \E s \in SyncSessions, u \in {"u1", None} : AuthStateChanged(s, u)
  \/ \E s \in SyncSessions : OnNotesSnapshot(s)
  \/ \E s \in SyncSessions, title \in NewTitles, ok \in BOOLEAN :
       InsertAllowed(ok, MaxListDocs) /\ addNote(s, title, ok)
  \/ \E s \in SyncSessions, id \in 1..MaxListDocs, text \in ItemTexts :
       addChecklistItem(s, id, text)
  \/ \E s \in SyncSessions, id \in 1..MaxListDocs, item \in 1..MaxItems, v \in BOOLEAN :
       updateChecklistItem(s, id, item, v)
  \/ \E s \in SyncSessions, id \in 1..MaxListDocs, item \in 1..MaxItems :
       deleteChecklistItem(s, id, item)
  \/ \E s \in SyncSessions : \E i \in 1..Len(notes[s]) : handleEditNote(s, i)
  \/ \E s \in SyncSessions : handleNewNote(s)
  \/ \E s \in SyncSessions, text \in ItemTexts :
       noteEditor[s].nextItem <= MaxItems /\ handleAddChecklistItem(s, text)
  \/ \E s \in SyncSessions, k \in 1..MaxItems : handleToggleChecklistItem(s, k)
  \/ \E s \in SyncSessions, k \in 1..MaxItems : handleDeleteChecklistItem(s, k)
  \/ \E s \in SyncSessions : handleCancel(s)
  \/ \E s \in SyncSessions, title \in EditTitles, ok \in BOOLEAN :
       /\ InsertAllowed(ok /\ noteEditor[s].note = NoId, MaxListDocs)
       /\ handleSubmit(s, title, ok)

SpecChecklist == Init /\ [][NextChecklist]_vars

\* Spec with live queries that can terminate abnormally
NextLost ==
  \/ Next
  \/ \E s \in SyncSessions : OnFilesSnapshotError(s)
  \/ \E s \in SyncSessions : OnNotesSnapshotError(s)

SpecLost == Init /\ [][NextLost]_vars

\* one session of the owner u1 and three calls, so that an upload can be
\* followed by two deleteFile calls of its record
NextDelete ==
  \/ \E s \in SyncSessions, u \in {"u1", None} : AuthStateChanged(s, u)
  \/ \E s \in SyncSessions : OnFilesSnapshot(s)
  \/ \E s \in SyncSessions, n \in DocumentNames :
       CallAllowed(MaxDeleteCalls, MaxDeleteTasks) /\ uploadFileCall(s, n, <<"image", "png">>)
  \/ \E s \in SyncSessions, id \in 1..MaxDeleteDocs :
       CallAllowed(MaxDeleteCalls, MaxDeleteTasks) /\ deleteFileCall(s, id)
  \/ \E t \in 1..Len(tasks), ok \in BOOLEAN : uploadBytes(t, ok)
  \/ \E t \in 1..Len(tasks), ok \in BOOLEAN : getDownloadURL(t, ok)
  \/ \E t \in 1..Len(tasks), ok \in BOOLEAN :
       InsertAllowed(ok, MaxDeleteDocs) /\ uploadAddDoc(t, ok)
  \/ \E t \in 1..Len(tasks), ok \in BOOLEAN : deleteDoc(t, ok)
  \/ \E t \in 1..Len(tasks), ok \in BOOLEAN : deleteObject(t, ok)
  \/ now < MaxTime /\ Tick

SpecDelete == Init /\ [][NextDelete]_vars

\* The folder tree of one session of the owner u1: folders are created in
\* the current folder and deleted from the listing.
NextTree ==
  \/ \E s \in SyncSessions, u \in {"u1", None} : AuthStateChanged(s, u)
  \/ \E s \in SyncSessions : OnFilesSnapshot(s)
  \/ \E s \in SyncSessions : handleFileClick(s)
  \/ \E s \in SyncSessions : handleBreadcrumbClick(s)
  \/ \E s \in SyncSessions, n \in FolderNames, ok \in BOOLEAN :
       InsertAllowed(ok, MaxTreeDocs) /\ createFolder(s, n, ok)
  \/ \E s \in SyncSessions, id \in 1..MaxTreeDocs :
       CallAllowed(MaxTreeCalls, MaxTreeTasks) /\ deleteFileCall(s, id)
  \/ \E t \in 1..Len(tasks), ok \in BOOLEAN : deleteDoc(t, ok)

SpecTree == Init /\ [][NextTree]_vars

\* The file browser of one session of the owner u1 in the grid view, with
\* folders and documents.
NextBrowse ==
  \/ \E s \in SyncSessions, u \in {"u1", None} : AuthStateChanged(s, u)
  \/ \E s \in SyncSessions : OnFilesSnapshot(s)
  \/ \E s \in SyncSessions, n \in FolderNames, ok \in BOOLEAN :
       InsertAllowed(ok, MaxBrowseDocs) /\ BrowserIdle(s) /\ createFolder(s, n, ok)
  \/ \E s \in SyncSessions, n \in DocumentNames, ok \in BOOLEAN :
       InsertAllowed(ok, MaxBrowseDocs) /\ BrowserIdle(s) /\ createDocument(s, n, "", ok)
  \/ \E s \in SyncSessions : BrowserIdle(s) /\ handleBreadcrumbClick(s)
  \/ \E s \in SyncSessions : handleBack(s)
  \/ \E s \in SyncSessions, i \in 1..MaxBrowseDocs : handleMenuOpen(s, i)
  \/ \E s \in SyncSessions : handleMenuClose(s)
  \/ \E s \in SyncSessions :
       CallAllowed(MaxBrowseCalls, MaxBrowseTasks) /\ menuDelete(s)
  \/ \E s \in SyncSessions, i \in 1..MaxBrowseDocs : gridDelete(s, i)
  \/ \E t \in 1..Len(tasks), ok \in BOOLEAN : deleteDoc(t, ok)

SpecBrowse == Init /\ [][NextBrowse]_vars

\* three calls, so that two uploads can be followed by a deleteFile
NextCollide == BlobNext(MimeTypes, MaxCollideCalls, MaxCollideTasks, MaxCollideDocs)
SpecCollide == Init /\ [][NextCollide]_vars

\* The write operations on existing records: the sessions of one owner, u1,
\* in the root folder, creating, updating, starring, sharing and deleting
\* documents and notes, with the pushes.
NextEdit ==
  \/ \E s \in Sessions, u \in {"u1", None} : AuthStateChanged(s, u)
  \/ \E s \in Sessions : OnFilesSnapshot(s)
  \/ \E s \in Sessions : OnNotesSnapshot(s)
  \/ \E s \in Sessions, n \in DocumentNames, ok \in BOOLEAN :
       InsertAllowed(ok, MaxEditDocs) /\ createDocument(s, n, "", ok)
  \/ \E s \in Sessions, id \in 1..MaxEditDocs, c \in Contents, ok \in BOOLEAN :
       updateDocument(s, id, c, ok)
  \/ \E s \in Sessions, id \in 1..MaxEditDocs, ok \in BOOLEAN : toggleStar(s, id, ok)
  \/ \E s \in Sessions, id \in 1..MaxEditDocs, e \in Emails, ok \in BOOLEAN :
       shareFile(s, id, e, ok)
  \/ \E s \in Sessions, id \in 1..MaxEditDocs :
       CallAllowed(MaxEditCalls, MaxEditTasks) /\ deleteFileCall(s, id)
  \/ \E t \in 1..Len(tasks), ok \in BOOLEAN : deleteDoc(t, ok)
  \/ \E s \in Sessions, title \in NewTitles, ok \in BOOLEAN :
       InsertAllowed(ok, MaxEditDocs) /\ addNote(s, title, ok)
  \/ \E s \in Sessions, id \in 1..MaxEditDocs, title \in EditTitles, pin \in BOOLEAN,
        ok \in BOOLEAN : updateNote(s, id, title, pin, ok)
  \/ \E s \in Sessions, id \in 1..MaxEditDocs, ok \in BOOLEAN : togglePin(s, id, ok)
  \/ \E s \in Sessions, id \in 1..MaxEditDocs, ok \in BOOLEAN : deleteNote(s, id, ok)
  \/ \E s \in Sessions, id \in 1..MaxEditDocs, text \in ItemTexts :
       addChecklistItem(s, id, text)
  \/ now < MaxTime /\ Tick

SpecEdit == Init /\ [][NextEdit]_vars

\* The notes engine of one session of the owner u1: notes created, saved
\* from the editor (pinned or not), pinned, unpinned and deleted at different
\* times, and the pushes.
NextNotes ==
  \/ \E s \in SyncSessions, u \in {"u1", None} : AuthStateChanged(s, u)
  \/ \E s \in SyncSessions : OnNotesSnapshot(s)
  \/ \E s \in SyncSessions, title \in NewTitles, ok \in BOOLEAN :
       InsertAllowed(ok, MaxNoteDocs) /\ addNote(s, title, ok)
  \/ \E s \in SyncSessions, id \in 1..MaxNoteDocs, title \in NewTitles, pin \in BOOLEAN,
        ok \in BOOLEAN : updateNote(s, id, title, pin, ok)
  \/ \E s \in SyncSessions, id \in 1..MaxNoteDocs, ok \in BOOLEAN : togglePin(s, id, ok)
  \/ \E s \in SyncSessions, id \in 1..MaxNoteDocs, ok \in BOOLEAN : deleteNote(s, id, ok)
  \/ now < MaxTime /\ Tick

SpecNotes == Init /\ [][NextNotes]_vars

\* ------------------------------------------------------------------ claims

LocalIds(q) == {q[i].id : i \in 1..Len(q)}

\* C1: right after a push is applied, the local collection of that engine
\* holds exactly the records of the pushed result set, each once: the
\* records the store holds for the current owner (and, for files, the current
\* folder), with none missing and none left over from an earlier push or an
\* earlier owner/folder predicate.
C1_PushReplacesCollection ==
  \A s \in Sessions :
    /\ (last[1] = "filesPush" /\ last[2] = s) =>
         /\ Range(files[s]) =
              {d \in docs : d.userId = currentUser[s] /\ d.parentId = currentFolder[s]}
         /\ Cardinality(LocalIds(files[s])) = Len(files[s])
    /\ (last[1] = "notesPush" /\ last[2] = s) =>
         /\ Range(notes[s]) = {d \in noteDocs : d.userId = currentUser[s]}
         /\ Cardinality(LocalIds(notes[s])) = Len(notes[s])

\* a push into a folder whose listing differs from the listing loaded before
\* it, while the store also holds records of another predicate
C1_Witness ==
  \E s \in Sessions :
    /\ last[1] = "filesPush" /\ last[2] = s
    /\ currentFolder[s] # NoId
    /\ Len(files[s]) >= 1
    /\ \E d \in docs : d.parentId # currentFolder[s]

\* C2: each engine has at most one active live subscription, and it is the
\* one of the current owner and folder: the subscription of the previous
\* predicate is released when the owner or the folder changes.
C2_OneSubscription ==
  \A s \in Sessions :
    /\ Cardinality(fileSubs[s]) <= 1
    /\ Cardinality(noteSubs[s]) <= 1
    /\ \A sub \in fileSubs[s] :
         sub.userId = currentUser[s] /\ sub.parentId = currentFolder[s]
    /\ \A sub \in noteSubs[s] : sub.userId = currentUser[s]
    /\ (currentUser[s] = None) = (fileSubs[s] = {})
    /\ (currentUser[s] = None) = (noteSubs[s] = {})

\* a subscription re-established after a change of folder
C2_Witness ==
  \E s \in Sessions :
    /\ currentFolder[s] # NoId
    /\ fileSubs[s] = {[userId |-> currentUser[s], parentId |-> currentFolder[s]]}
    /\ noteSubs[s] # {}

\* C3: every record of the local files collection has parentId equal to the
\* current folder, in every reachable state.
C3_FilesMatchCurrentFolder ==
  \A s \in Sessions : \A i \in 1..Len(files[s]) :
    files[s][i].parentId = currentFolder[s]

\* C4: every record of the local files and notes collections has the current
\* identity as its owner, in every reachable state.
C4_OwnershipScoping ==
  \A s \in Sessions :
    /\ \A i \in 1..Len(files[s]) : files[s][i].userId = currentUser[s]
    /\ \A i \in 1..Len(notes[s]) : notes[s][i].userId = currentUser[s]

\* the call that settled in the last step, if one did
Settled(kind) == last[1] = "settled" /\ last[2].kind = kind

\* C5: every non-folder record of the Record Store with a non-empty url
\* refers to a blob that exists in the Blob Store, in every reachable state.
C5_EveryUrlHasBlob ==
  \A d \in docs :
    (d.type # "folder" /\ d.url # NoUrl) => PathOfUrl(d.url) \in blobs

\* C6: an uploadFile whose blob put, or the URL retrieval after it, failed is
\* rejected and has issued no insert: it never adds a record.
C6_BlobFailureInsertsNothing ==
  (Settled("upload") /\ last[2].failedAt \in {"put", "url"}) =>
    /\ last[2].pc = "rejected"
    /\ last[2].nInsert = 0
    /\ last[2].docId = NoId

\* an uploadFile rejected by a failed put
C6_Witness ==
  /\ Settled("upload")
  /\ last[2].failedAt = "put"
  /\ last[2].pc = "rejected"

C8_InsertFailureKeepsBlob ==
  [][(last'[1] = "settled" /\ last'[2].kind = "upload" /\ last'[2].failedAt = "insert") =>
       /\ last'[2].pc = "rejected"
       /\ blobs' = blobs
       /\ docs' = docs
       /\ last'[2].docId = NoId
       /\ last'[2].nPut = 1
       /\ last'[2].nInsert = 1]_vars

\* an uploadFile rejected by a failed insert, with its blob in the Blob Store
C8_Witness ==
  /\ Settled("upload")
  /\ last[2].failedAt = "insert"
  /\ last[2].pc = "rejected"
  /\ last[2].path \in blobs
  /\ \A d \in docs : d.url # DownloadURL(last[2].path)

\* C9: a deleteFile(id) that completes without a store failure, for an id
\* that was in the Record Store at the call, leaves no record with that id.
C9_DeleteRemovesStoredRecord ==
  (Settled("delete") /\ last[2].existed /\ last[2].pc = "resolved"
     /\ last[2].failedAt = "") =>
    \A d \in docs : d.id # last[2].target

\* C10: the step in which the blob deletion of a deleteFile fails, after its
\* record deletion succeeded, completes the call successfully, with the record
\* deleted and the Blob Store as it was.
C10_BlobCleanupFailureStillSucceeds ==
  [][(last'[1] = "settled" /\ last'[2].kind = "delete" /\ last'[2].failedAt = "deleteBlob") =>
       /\ last'[2].pc = "resolved"
       /\ last'[2].blobErr
       /\ blobs' = blobs
       /\ \A d \in docs' : d.id # last'[2].target]_vars

\* a deleteFile that completed although its blob deletion failed: the record
\* is gone and the blob is still there
C10_Witness ==
  /\ Settled("delete")
  /\ last[2].blobErr
  /\ last[2].pc = "resolved"
  /\ PathOfUrl(last[2].url) \in blobs
  /\ \A d \in docs : d.id # last[2].target

\* C11: every uploadFile or deleteFile that settles after a partial
\* coordination failure (one store had succeeded when the other failed: the
\* insert after the blob put, or the blob deletion after the record deletion)
\* is rejected, so that the caller learns of it.
C11_PartialFailureReported ==
  (last[1] = "settled" /\ last[2].failedAt \in {"insert", "deleteBlob"}) =>
    last[2].pc = "rejected"

\* C12: in every reachable state the breadcrumb trail starts with the root
\* entry; at root it is exactly [root], and in a folder its last entry is
\* the current folder.
C12_TrailEndsAtCurrentFolder ==
  \A s \in Sessions :
    /\ breadcrumbs[s][1] = RootCrumb
    /\ currentFolder[s] = NoId => breadcrumbs[s] = <<RootCrumb>>
    /\ currentFolder[s] # NoId =>
         breadcrumbs[s][Len(breadcrumbs[s])].id = currentFolder[s]

\* a breadcrumb click on the current folder, which the loaded collection (the
\* folder's own listing) does not hold: the trail is left as it was
C12_Witness ==
  /\ last[1] = "navigate"
  /\ last[3] # NoId
  /\ currentFolder[last[2]] = last[3]
  /\ Find(files[last[2]], last[3]) = 0
  /\ \E d \in docs : d.parentId = last[3]

\* C13: right after navigateToFolder(null) the trail is exactly [root], and
\* right after navigateToFolder(F), for a folder F of the Record Store that
\* has no parent, it is exactly [root, {F.id, F.name}].
C13_TrailOfTopLevelFolder ==
  last[1] = "navigate" =>
    /\ last[3] = NoId => breadcrumbs[last[2]] = <<RootCrumb>>
    /\ \A d \in docs :
         (d.id = last[3] /\ d.type = "folder" /\ d.parentId = NoId) =>
           breadcrumbs[last[2]] = <<RootCrumb, [id |-> d.id, name |-> d.name]>>

\* a navigation from the root listing into a top-level folder
C13_Witness ==
  /\ last[1] = "navigate"
  /\ \E d \in docs :
       /\ d.id = last[3] /\ d.type = "folder" /\ d.parentId = NoId
       /\ breadcrumbs[last[2]] = <<RootCrumb, [id |-> d.id, name |-> d.name]>>
       /\ currentFolder[last[2]] = d.id

\* C15: while the identity is none, no files or notes subscription is
\* active, both local collections are empty, and the current folder and the
\* breadcrumb trail are at root.
C15_SignedOutStateCleared ==
  \A s \in Sessions :
    currentUser[s] = None =>
      /\ fileSubs[s] = {} /\ noteSubs[s] = {}
      /\ files[s] = <<>> /\ notes[s] = <<>>
      /\ currentFolder[s] = NoId
      /\ breadcrumbs[s] = <<RootCrumb>>

\* the last step was a call of a write operation of one store call at most
Op(names) == last[1] = "op" /\ last[2].op \in names
UpdateOps == {"updateDocument", "toggleStar", "shareFile", "updateNote", "togglePin"}

\* C14: two successive toggleStar calls of a session on the same id that
\* both complete their write return the record's isStarred in the Record
\* Store to the value it had before the first, with no push needed between.
C14_ToggleStarTwiceRestores ==
  [][(/\ Op({"toggleStar"}) /\ last[2].issued = 1 /\ last[2].outcome = "resolved"
      /\ last'[1] = "op" /\ last'[2].op = "toggleStar"
      /\ last'[2].sess = last[2].sess /\ last'[2].target = last[2].target
      /\ last'[2].issued = 1 /\ last'[2].outcome = "resolved") =>
       \A d \in docs' : d.id = last[2].target => d.isStarred = last[2].wasStarred]_vars

\* C16: a call of a write operation made with no current identity issues no
\* call to the Record Store or the Blob Store.
C16_NoIdentityNoStoreCall ==
  /\ (last[1] = "op" /\ last[2].user = None) => last[2].issued = 0
  /\ (last[1] = "settled" /\ last[2].kind = "upload" /\ last[2].user = None) =>
       last[2].nPut = 0 /\ last[2].nInsert = 0

\* C17: a call of a write operation made with no current identity ends
\* rejected, never as a successful completion.
C17_NoIdentityRejects ==
  /\ (last[1] = "op" /\ last[2].user = None) => last[2].outcome = "rejected"
  /\ (last[1] = "settled" /\ last[2].kind = "upload" /\ last[2].user = None) =>
       last[2].pc = "rejected"

\* C18: an update-type operation called with an id that is not in the Record
\* Store ends rejected.
C18_MissingIdRejects ==
  (Op(UpdateOps) /\ ~last[2].existed) => last[2].outcome = "rejected"

\* C19: the step of a togglePin or toggleStar that completes its write leaves
\* every field of the remote record other than isPinned / isStarred (and
\* updatedAt) as the Record Store held it.
C19_ToggleWritesOnlyItsField ==
  [][/\ (last'[1] = "op" /\ last'[2].op = "togglePin" /\ last'[2].outcome = "resolved") =>
          \A d \in noteDocs : \E e \in noteDocs' :
            e.id = d.id /\ e.title = d.title /\ e.userId = d.userId
     /\ (last'[1] = "op" /\ last'[2].op = "toggleStar" /\ last'[2].outcome = "resolved") =>
          \A d \in docs : \E e \in docs' :
            e = [d EXCEPT !.isStarred = e.isStarred, !.updatedAt = e.updatedAt]]_vars

\* C20: right after an update operation that completed its write, the
\* updatedAt of its record is the time of the operation.
C20_UpdateRefreshesUpdatedAt ==
  (Op(UpdateOps) /\ last[2].issued = 1 /\ last[2].outcome = "resolved") =>
    /\ \A d \in docs : d.id = last[2].target => d.updatedAt = now
    /\ \A d \in noteDocs : d.id = last[2].target => d.updatedAt = now

\* C21: right after a push the local notes collection is ordered: no
\* unpinned note precedes a pinned one, and of two notes with the same pinned
\* state the one updated more recently does not come second.
C21_NotesOrdered ==
  \A s \in Sessions :
    (last[1] = "notesPush" /\ last[2] = s) =>
      \A i, j \in 1..Len(notes[s]) :
        i < j =>
          /\ notes[s][j].isPinned => notes[s][i].isPinned
          /\ notes[s][i].isPinned = notes[s][j].isPinned =>
               notes[s][i].updatedAt >= notes[s][j].updatedAt

\* a push that lists a pinned note before an unpinned note updated later
C21_Witness ==
  \E s \in Sessions :
    /\ last[1] = "notesPush" /\ last[2] = s
    /\ Len(notes[s]) = 2
    /\ notes[s][1].isPinned /\ ~notes[s][2].isPinned
    /\ notes[s][1].updatedAt < notes[s][2].updatedAt

\* C22 (as stated): the local files and notes collections of a session
\* change only in a step that is that engine's subscription callback.
C22_OnlyCallbackMutates ==
  [][\A s \in Sessions :
       /\ files'[s] # files[s] => (last'[1] = "filesPush" /\ last'[2] = s)
       /\ notes'[s] # notes[s] => (last'[1] = "notesPush" /\ last'[2] = s)]_vars

\* C22 (amended): the local files and notes collections of a session change
\* only in a step that is that engine's subscription callback, or in the step
\* in which the identity becomes none, where the subscription effect empties
\* them.
C22_OnlyCallbackOrSignOutMutates ==
  [][\A s \in Sessions :
       /\ files'[s] # files[s] =>
            \/ last'[1] = "filesPush" /\ last'[2] = s
            \/ currentUser[s] # None /\ currentUser'[s] = None /\ files'[s] = <<>>
       /\ notes'[s] # notes[s] =>
            \/ last'[1] = "notesPush" /\ last'[2] = s
            \/ currentUser[s] # None /\ currentUser'[s] = None /\ notes'[s] = <<>>]_vars

\* writes have reached both stores and the local collections, which only the
\* next push will change, do not hold the new records yet
C22_Witness ==
  \E s \in Sessions :
    /\ currentUser[s] # None
    /\ \E d \in docs : /\ d.userId = currentUser[s] /\ d.parentId = currentFolder[s]
                       /\ Find(files[s], d.id) = 0
    /\ \E n \in noteDocs : n.userId = currentUser[s] /\ Find(notes[s], n.id) = 0

\* what FileProvider and NotesProvider expose of a session to their consumers
FilesView(s) == <<files[s], currentFolder[s], breadcrumbs[s]>>
NotesView(s) == notes[s]

\* C23: the step in which the live query of an engine terminates abnormally
\* changes what that engine exposes (it raises a signal), so that the state
\* after it differs from the state before it, in which the collection was
\* current.
C23_SubscriptionLossSignalled ==
  [][\A s \in Sessions :
       /\ (last'[1] = "filesLost" /\ last'[2] = s) => FilesView(s)' # FilesView(s)
       /\ (last'[1] = "notesLost" /\ last'[2] = s) => NotesView(s)' # NotesView(s)]_vars

\* record id is in the Record Store and the live query of session s selects it
Selected(s, id) ==
  \E d \in docs : /\ d.id = id
                  /\ d.userId = currentUser[s]
                  /\ d.parentId = currentFolder[s]

\* C24: a record enters the Record Store in the step that completes its
\* createFolder, createDocument or uploadFile (an uploadFile that passed the
\* identity guard and resolves has inserted one), with the userId and parentId
\* that were the identity and the current folder of the session at the call;
\* and a record that the session's identity and current folder select is
\* eventually in the local files collection, unless the identity or the
\* folder changes first, when pushes that stay possible are delivered.
C24_CreatedRecordStampedAndVisible ==
  /\ [][/\ Len(tasks') > Len(tasks) =>
             \E s \in SyncSessions :
               /\ tasks'[Len(tasks')].user = currentUser[s]
               /\ tasks'[Len(tasks')].parent = currentFolder[s]
        /\ \A d \in docs' \ docs :
             IF Len(tasks') < Len(tasks)
             THEN /\ last'[1] = "settled" /\ last'[2].pc = "resolved"
                  /\ last'[2].docId = d.id
                  /\ d.userId = last'[2].user /\ d.parentId = last'[2].parent
             ELSE \E s \in SyncSessions :
                    /\ currentUser[s] # None
                    /\ d.userId = currentUser[s] /\ d.parentId = currentFolder[s]
        /\ (last'[1] = "settled" /\ last'[2].kind = "upload" /\ last'[2].pc = "resolved"
              /\ last'[2].user # None) =>
             \E d \in docs' \ docs : d.id = last'[2].docId]_vars
  /\ \A s \in SyncSessions, id \in 1..MaxLiveDocs :
       Selected(s, id) ~> (Find(files[s], id) # 0 \/ ~Selected(s, id))

\* the folder Projects created at root by u1 is listed at root, and a record
\* created inside it is listed when the session is in it
C24_Witness ==
  \E s \in SyncSessions : \E i \in 1..Len(files[s]) :
    /\ currentUser[s] = "u1"
    /\ Selected(s, files[s][i].id)
    /\ files[s][i].type # "folder"
    /\ \E d \in docs : /\ d.id = files[s][i].parentId
                       /\ d.name = "Projects" /\ d.type = "folder"
                       /\ d.userId = "u1" /\ d.parentId = NoId

\* C25: a debounce timer of the mounted document editor that fires issues
\* the only write of its burst: it fires no sooner than DebounceWait after the
\* editor's last edit, carries the content of that edit, and leaves no other
\* timer of that editor pending.
C25_BurstSavedOnce ==
  [][\A s \in Sessions :
       (last'[1] = "saved" /\ last'[2].sess = s /\ last'[2].mounted) =>
         /\ now >= editor[s].lastAt + DebounceWait
         /\ last'[2].content = editor[s].lastContent
         /\ \A t \in editor'[s].timers : ~t.mounted]_vars

\* C26: no debounce timer fires after the document editor that set it has
\* been unmounted.
C26_NoSaveAfterUnmount ==
  [][last'[1] = "saved" => last'[2].mounted]_vars

\* C27: a shareFile(id, recipient) that succeeds leaves the record shared
\* and its sharedWith equal to the list held before followed by the recipient.
C27_ShareAppendsRecipient ==
  [][(last'[1] = "op" /\ last'[2].op = "shareFile" /\ last'[2].outcome = "resolved") =>
       \A d \in docs :
         d.id = last'[2].target =>
           \E e \in docs', r \in Emails :
             /\ e.id = d.id
             /\ e.isShared
             /\ e.sharedWith = Append(d.sharedWith, r)]_vars

\* C28: a deleteFile of an id that is not in the Record Store at the call
\* (never stored, or deleted by an earlier deleteFile, with or without the
\* push that removes the local copy) completes without rejecting, unless the
\* Record Store itself fails the request; and a record leaves the Record
\* Store only through a deleteFile whose id was in the store at its call.
C28_DeleteMissingIsNoOp ==
  [][/\ (last'[1] = "settled" /\ last'[2].kind = "delete" /\ ~last'[2].existed
           /\ last'[2].failedAt # "deleteDoc") =>
          last'[2].pc = "resolved"
     /\ \A d \in docs :
          (\A e \in docs' : e.id # d.id) =>
            \E t \in 1..Len(tasks) :
              /\ tasks[t].kind = "delete" /\ tasks[t].target = d.id
              /\ tasks[t].existed]_vars

\* a second deleteFile of a record, issued from the stale local copy after
\* the first one removed it from the store, has gone through its deleteDoc
\* and its blob deletion and has resolved
C28_Witness ==
  /\ Settled("delete")
  /\ last[2].found /\ ~last[2].existed
  /\ last[2].pc = "resolved"
  /\ last[2].blobErr

\* C29: no two uploadFile calls in flight write to the same blob path, and no
\* two records of the Record Store refer to the same blob.
C29_BlobPathsDistinct ==
  /\ \A i, j \in 1..Len(tasks) :
       (i # j /\ tasks[i].kind = "upload" /\ tasks[j].kind = "upload") =>
         tasks[i].path # tasks[j].path
  /\ \A d, e \in docs : (d.id # e.id /\ d.url # NoUrl) => d.url # e.url

\* C30: an addChecklistItem(noteId, text) on a note of the Record Store
\* leaves the note with its former items in their order, followed by one new
\* item that is not completed and whose id no former item has.
C30_AddChecklistItemAppends ==
  [][(last'[1] = "op" /\ last'[2].op = "addChecklistItem" /\ last'[2].existed) =>
       \A n \in noteDocs :
         n.id = last'[2].target =>
           \E m \in noteDocs' :
             /\ m.id = n.id
             /\ Len(m.checklistItems) = Len(n.checklistItems) + 1
             /\ SubSeq(m.checklistItems, 1, Len(n.checklistItems)) = n.checklistItems
             /\ ~m.checklistItems[Len(m.checklistItems)].isCompleted
             /\ \A k \in 1..Len(n.checklistItems) :
                  n.checklistItems[k].id # m.checklistItems[Len(m.checklistItems)].id]_vars

\* C31: a toggle of a checklist item that completes leaves that item in the
\* note's stored checklist with the flipped isCompleted it was called with, so
\* that two toggles of an item pass through done true and end at done false.
C31_ToggleFlipsItem ==
  [][(last'[1] = "item" /\ last'[2].op = "updateChecklistItem"
        /\ last'[2].existed /\ last'[2].outcome = "resolved") =>
       \E n \in noteDocs' :
         /\ n.id = last'[2].target
         /\ \E k \in 1..Len(n.checklistItems) :
              /\ n.checklistItems[k].id = last'[2].item
              /\ n.checklistItems[k].isCompleted = last'[2].isCompleted]_vars

\* C32: a toggle of an item id that is not in the note's stored checklist is
\* rejected and leaves the notes of the Record Store as they were.
C32_ToggleAbsentItemRejects ==
  [][(last'[1] = "item" /\ last'[2].op = "updateChecklistItem"
        /\ last'[2].existed /\ ~last'[2].present) =>
       /\ last'[2].outcome = "rejected"
       /\ noteDocs' = noteDocs]_vars

\* C33: when a deleteChecklistItem follows at once an addChecklistItem on the
\* same note, the checklist between the two calls is one item longer than
\* the checklist after them.
C33_AddThenRemoveKeepsLength ==
  [][(/\ last[1] = "op" /\ last[2].op = "addChecklistItem" /\ last[2].existed
      /\ last'[1] = "item" /\ last'[2].op = "deleteChecklistItem"
      /\ last'[2].sess = last[2].sess /\ last'[2].target = last[2].target) =>
       \A n \in noteDocs, m \in noteDocs' :
         (n.id = last[2].target /\ m.id = n.id) =>
           Len(n.checklistItems) = Len(m.checklistItems) + 1]_vars

\* C38: a submit of the note editor that succeeds leaves the note's stored
\* checklistItems equal to the list the editor held.
C38_SubmitStoresChecklist ==
  [][\A s \in Sessions :
       (last'[1] = "op" /\ last'[2].op = "handleSubmit" /\ last'[2].sess = s
          /\ last'[2].outcome = "resolved") =>
         \E n \in noteDocs' :
           /\ n.id = last'[2].target
           /\ n.checklistItems = noteEditor[s].checklistItems]_vars

\* C37: a push that arrives while the mounted document editor has a write
\* pending, and that leaves the editor on its document, leaves the editor's
\* content as the user typed it.
C37_PushKeepsUnsavedEdits ==
  [][\A s \in Sessions :
       (/\ last'[1] = "filesPush" /\ last'[2] = s
        /\ editor[s].doc # NoId /\ editor'[s].doc = editor[s].doc
        /\ \E t \in editor[s].timers : t.mounted /\ t.target = editor[s].doc) =>
         editor'[s].content = editor[s].content]_vars

\* C36: uploadFile(file) without a parentId fixes the owner and the parent of
\* its record when it is called: the call in flight carries the identity and
\* the current folder of that moment through the blob put unchanged, and the
\* record its insert creates has them as userId and parentId, whatever the
\* session's identity and folder are by then.
C36_UploadStampedAtCall ==
  [][/\ (Len(tasks') > Len(tasks) /\ tasks'[Len(tasks')].kind = "upload") =>
          \E s \in SyncSessions :
            /\ tasks'[Len(tasks')].user = currentUser[s]
            /\ tasks'[Len(tasks')].parent = currentFolder[s]
     /\ \A t \in 1..Len(tasks) :
          (Len(tasks') = Len(tasks) /\ tasks[t].kind = "upload") =>
            /\ tasks'[t].user = tasks[t].user
            /\ tasks'[t].parent = tasks[t].parent
     /\ (/\ Len(tasks') < Len(tasks)
         /\ last'[1] = "settled" /\ last'[2].kind = "upload"
         /\ last'[2].pc = "resolved") =>
          /\ \E t \in 1..Len(tasks) : /\ tasks[t].user = last'[2].user
                                        /\ tasks[t].parent = last'[2].parent
                                        /\ tasks[t].pc = "insert"
          /\ \E d \in docs' \ docs : /\ d.id = last'[2].docId
                                       /\ d.userId = last'[2].user
                                       /\ d.parentId = last'[2].parent]_vars

\* an upload called by u1 at root has inserted its record after the session
\* went into a folder and signed out
C36_Witness ==
  /\ last[1] = "settled" /\ last[2].kind = "upload" /\ last[2].pc = "resolved"
  /\ last[2].user = "u1" /\ last[2].parent = NoId
  /\ \E s \in SyncSessions : currentUser[s] = None /\ currentFolder[s] # NoId
  /\ \E d \in docs : d.id = last[2].docId /\ d.userId = "u1" /\ d.parentId = NoId

\* C34: navigateToFolder(F), for a folder F of the loaded collection, sets
\* the trail [root, parent, F] when the record of F's parent is in the loaded
\* collection and [root, F] when it is not; from the listing of the current
\* non-root folder P, entering a child F of P gives [root, F]; and the trail
\* never has more than three entries.
C34_TrailHasParentIffLoaded ==
  [][\A s \in Sessions :
       /\ Len(breadcrumbs'[s]) <= 3
       /\ (last'[1] = "navigate" /\ last'[2] = s /\ Find(files[s], last'[3]) # 0) =>
            LET F == files[s][Find(files[s], last'[3])]
                p == IF F.parentId = NoId THEN 0 ELSE Find(files[s], F.parentId)
                crumbF == [id |-> F.id, name |-> F.name]
            IN /\ p # 0 => breadcrumbs'[s] =
                     <<RootCrumb, [id |-> files[s][p].id, name |-> files[s][p].name], crumbF>>
               /\ p = 0 => breadcrumbs'[s] = <<RootCrumb, crumbF>>
               /\ (/\ currentFolder[s] # NoId
                   /\ \A i \in 1..Len(files[s]) : files[s][i].parentId = currentFolder[s]) =>
                    breadcrumbs'[s] = <<RootCrumb, crumbF>>]_vars

\* a navigation from the listing of folder P into its child F: the trail is
\* [root, F] although P is in the Record Store
C34_Witness ==
  /\ last[1] = "navigate"
  /\ \E F \in docs, P \in docs :
       /\ F.id = last[3] /\ F.type = "folder" /\ F.parentId = P.id
       /\ P.type = "folder" /\ P.parentId = NoId
       /\ currentFolder[last[2]] = F.id
       /\ breadcrumbs[last[2]] = <<RootCrumb, [id |-> F.id, name |-> F.name]>>
       /\ \A i \in 1..Len(files[last[2]]) : files[last[2]][i].parentId = P.id
       /\ Find(files[last[2]], F.id) # 0

\* C35: every record of the Record Store has no parent or has as parent an
\* existing folder record of the same owner.
C35_TreeConsistent ==
  \A d \in docs :
    d.parentId = NoId \/
      \E p \in docs : p.id = d.parentId /\ p.type = "folder" /\ p.userId = d.userId

\* C39: a click on the Delete control of a card of the grid calls deleteFile
\* for the file of that card and for no other, and leaves the session in the
\* folder it is in and the document editor closed.
C39_GridDeleteDeletesItsCard ==
  [][last'[1] = "gridDelete" =>
       /\ last'[2].deleted = {last'[2].target}
       /\ currentFolder'[last'[2].sess] = currentFolder[last'[2].sess]
       /\ editor'[last'[2].sess] = editor[last'[2].sess]]_vars

====
